---------------------------- MODULE Spec2Model ----------------------------
(***************************************************************************)
(* kickstats-analyzer: the stored-predictions page (generatePrediction,    *)
(* fetchPredictions, fetchUpcomingMatches, getMostLikelyOutcome), the      *)
(* team-pair predictor's getWinnerInfo, the Analysis page (league filter,  *)
(* top scorers, most assists, most active, performance data, position      *)
(* distribution, match summary), the league filter of the Teams page, and  *)
(* the match_predictions and matches tables of the migration with their    *)
(* row level security policies.                                            *)
(*                                                                         *)
(* Decimal numbers (probabilities, predicted scores) are integers counting *)
(* hundredths: 33.34 is 3334.  Player names are sequences of words, a      *)
(* word being its rank in alphabetical order (1 = "Alex", 2 = "Ben"), so   *)
(* that names can be compared.                                             *)
(***************************************************************************)
EXTENDS Integers, Sequences, FiniteSets, TLC

VARIABLES
    \* ---- the data store (supabase) ----
    db_matches,            \* table matches: match id -> row
    db_predictions,        \* table match_predictions, in order of insertion
    db_clock,              \* rows ever inserted into match_predictions
    \* ---- React state of the stored-predictions page ----
    predictions,           \* useState<Prediction[]>([])
    upcomingMatches,       \* useState<Match[]>([]), as match ids
    loading,               \* useState(true)
    generatingPrediction,  \* useState<string | null>(null)
    mountPending,          \* requests of the mount effect still in flight
    calls,                 \* activations of generatePrediction in flight
    \* ---- the mock generator taken alone ----
    draws,                 \* the five values Math.random() returns to one call
    mockPrediction,        \* the record the call builds from them
    \* ---- the winner computations ----
    probs,                 \* a probability triple <<home, draw, away>>
    outcome,               \* what getMostLikelyOutcome / getWinnerInfo return
    \* ---- the Analysis page ----
    players,               \* useState<Player[]>([])
    view,                  \* which aggregate is drawn, or which page is mounted
    aggregate,             \* the aggregate computed at render
    teams,                 \* useState<Team[]>([]) of the Analysis and Teams pages
    matches,               \* useState<Match[]>([])
    selectedLeague,        \* useState('all') of the Analysis page
    dataLoading,           \* useState(true) of the Analysis and Teams pages
    \* ---- the Teams page ----
    searchTerm,            \* useState('')
    leagueFilter,          \* useState('all')
    filteredTeams,         \* useState<Team[]>([])
    \* ---- the onboarding flow (Index, AuthForm, PlayerIdentity, CoachIdentity) ----
    currentScreen,         \* useState<Screen>('role-selection')
    selectedRole,          \* useState<Role | null>(null)
    user,                  \* whether the auth service holds a session of the user
    formLoading,           \* useState(false) of the form that is mounted
    inFlight,              \* requests awaited and timers set by the forms
    db_profiles,           \* table profiles: the roles of the rows of the user
    \* ---- the team-browsing page (Teams.tsx) ----
    browseLeague,          \* useState(""): selectedLeague
    browseLoading,         \* useState(false): loading
    browseTeams,           \* useState([]): teams, as team ids
    browsePlayers,         \* useState([]): players
    selectedTeam,          \* useState(null)
    loadingPlayers,        \* useState(false)
    browseRequests,        \* requests of fetchTeams and fetchPlayers in flight
    \* ---- the team-pair predictor page (Predictions.tsx) ----
    predictTeams,          \* useState<string[]>([]): teams
    homeTeam,              \* useState("")
    awayTeam,              \* useState("")
    predictLoading,        \* useState(false): loading
    predictionResult,      \* useState<PredictionResult | null>(null): prediction
    error,                 \* useState<string | null>(null)
    predictRequests        \* requests of fetchTeams and handlePredict in flight

pageVars == <<db_matches, db_predictions, db_clock, predictions, upcomingMatches,
              loading, generatingPrediction, mountPending, calls>>
genVars == <<draws, mockPrediction>>
winVars == <<probs, outcome>>
anaVars == <<players, view, aggregate>>
leagueVars == <<teams, matches, selectedLeague, dataLoading, searchTerm,
                leagueFilter, filteredTeams>>
onbVars == <<currentScreen, selectedRole, user, formLoading, inFlight,
             db_profiles>>
browseVars == <<browseLeague, browseLoading, browseTeams, browsePlayers,
                selectedTeam, loadingPlayers, browseRequests>>
predVars == <<predictTeams, homeTeam, awayTeam, predictLoading,
              predictionResult, error, predictRequests>>
vars == <<pageVars, genVars, winVars, anaVars, leagueVars, onbVars, browseVars,
          predVars>>

-----------------------------------------------------------------------------
(* Bounds of the model *)

NumMatches == 2       \* rows of table matches
NumTeams == 2         \* rows of table teams
MaxRows == 2          \* rows of match_predictions, inserted or being inserted
MaxCalls == 2         \* activations of generatePrediction in flight at once
RandSteps == 7        \* Math.random() returns k / RandSteps, k in 0..RandSteps-1

Matches == 1..NumMatches
Teams == 1..NumTeams
NoMatch == 0          \* null in generatingPrediction

\* The values of the state that a specification does not use.
Idle == "idle"

-----------------------------------------------------------------------------
(* Generic helpers *)

RECURSIVE SeqSum(_)
SeqSum(s) == IF s = <<>> THEN 0 ELSE Head(s) + SeqSum(Tail(s))

Reverse(s) == [i \in 1..Len(s) |-> s[Len(s) + 1 - i]]

\* Array.prototype.slice(0, n)
Slice0(s, n) == SubSeq(s, 1, IF Len(s) < n THEN Len(s) ELSE n)

Range(s) == {s[i] : i \in 1..Len(s)}

RemoveAt(s, i) == SubSeq(s, 1, i - 1) \o SubSeq(s, i + 1, Len(s))

-----------------------------------------------------------------------------
(* The mock generator: part_006 generatePrediction, lines 104-118 *)

\* Number.prototype.toFixed(2) followed by Number(): the value num/den rounded
\* to the nearest hundredth, a tie going to the larger one; the result counts
\* hundredths.
ToFixed2(num, den) == (200 * num + den) \div (2 * den)

\* Math.random() * scale + offset for Math.random() = k / RandSteps, offset
\* given in halves (0.5 is 1), rounded by toFixed(2).
RandomIn(k, scale, offsetHalves) ==
    ToFixed2(2 * k * scale + offsetHalves * RandSteps, 2 * RandSteps)

\* A list that names one factor twice.
KeyFactorsRepeated == <<"Home advantage", "Recent form comparison",
                        "Home advantage", "Player availability">>

\* lines 111-116
KeyFactors == <<"Home advantage", "Recent form comparison",
                "Head-to-head record", "Player availability">>

MockPrediction(match_id, d) ==
    [match_id |-> match_id,
     predicted_home_score |-> RandomIn(d[1], 3, 1),
     predicted_away_score |-> RandomIn(d[2], 3, 1),
     home_win_probability |-> RandomIn(d[3], 40, 60),
     draw_probability |-> RandomIn(d[4], 30, 40),
     away_win_probability |-> RandomIn(d[5], 40, 60),
     key_factors |-> KeyFactors]

RandomValues == 0..(RandSteps - 1)
DrawTuples == [1..5 -> RandomValues]

\* The draws the page specification lets a call see: the smallest values and
\* one mixed tuple (the full grid is explored by SpecGen).
PageDraws == {[i \in 1..5 |-> 0], [i \in 1..5 |-> (2 * i) % RandSteps]}

-----------------------------------------------------------------------------
(* The data store *)

\* INSERT INTO match_predictions: id and created_at take their defaults
\* (a fresh uuid, now()); both are modelled by the number of the insert.
InsertRow(table, row, clock) ==
    Append(table, [id |-> clock + 1, created_at |-> clock + 1] @@ row)

\* select * from match_predictions order by created_at desc
SelectPredictions(table) == Reverse(table)

UpcomingLimit == 10
DisplayLimit == 6

\* select ... from matches where status = 'scheduled' order by match_date
\* limit 10 (match dates ascend with the match id)
SelectScheduled(tbl) ==
    LET ids == SelectSeq([i \in 1..NumMatches |-> i],
                         LAMBDA m : tbl[m].status = "scheduled")
    IN  Slice0(ids, UpcomingLimit)

Count(table, m) == Cardinality({i \in 1..Len(table) : table[i].match_id = m})

-----------------------------------------------------------------------------
(* The stored-predictions page: part_006 *)

\* lines 88-89: the matches of data that the predictions of the closure do
\* not cover
Unpredicted(data, closurePredictions) ==
    LET predictedMatchIds == {closurePredictions[i].match_id :
                                  i \in 1..Len(closurePredictions)}
    IN  SelectSeq(data, LAMBDA m : m \notin predictedMatchIds)

PageInit ==
    /\ db_matches \in [Matches -> [home_team_id : Teams, away_team_id : Teams,
                                   status : {"scheduled"}]]
    /\ db_predictions = <<>>
    /\ db_clock = 0
    /\ predictions = <<>>
    /\ upcomingMatches = <<>>
    /\ loading = TRUE
    /\ generatingPrediction = NoMatch
    /\ mountPending = {"fetchPredictions", "fetchUpcomingMatches"}
    /\ calls = <<>>

\* useEffect, lines 40-43: fetchPredictions() of the first render answers
MountFetchPredictions(ok) ==
    /\ "fetchPredictions" \in mountPending
    /\ mountPending' = mountPending \ {"fetchPredictions"}
    /\ predictions' = IF ok THEN SelectPredictions(db_predictions) ELSE predictions
    /\ UNCHANGED <<db_matches, db_predictions, db_clock, upcomingMatches, loading,
                   generatingPrediction, calls>>
    /\ UNCHANGED <<genVars, winVars, anaVars, leagueVars,
                   onbVars, browseVars, predVars>>

\* useEffect, lines 40-43: fetchUpcomingMatches() of the first render answers;
\* its closure holds the predictions of the first render, the empty array
MountFetchUpcomingMatches(ok) ==
    /\ "fetchUpcomingMatches" \in mountPending
    /\ mountPending' = mountPending \ {"fetchUpcomingMatches"}
    /\ upcomingMatches' = IF ok THEN Unpredicted(SelectScheduled(db_matches), <<>>)
                                ELSE upcomingMatches
    /\ loading' = FALSE
    /\ UNCHANGED <<db_matches, db_predictions, db_clock, predictions,
                   generatingPrediction, calls>>
    /\ UNCHANGED <<genVars, winVars, anaVars, leagueVars,
                   onbVars, browseVars, predVars>>

\* The Generate button of match m, lines 191-194, starts generatePrediction:
\* lines 99-122 up to the await of the insert.  The call keeps the predictions
\* of the render it was started in (the closure of fetchUpcomingMatches), and
\* existed records whether the store held a prediction of m at that moment.
ClickGenerate(m, d) ==
    /\ ~loading
    /\ m \in Range(Slice0(upcomingMatches, DisplayLimit))
    /\ generatingPrediction # m
    /\ Len(calls) < MaxCalls
    /\ db_clock
         + Cardinality({i \in 1..Len(calls) : calls[i].pc = "insert"}) < MaxRows
    /\ generatingPrediction' = m
    /\ calls' = Append(calls, [match |-> m,
                               pc |-> "insert",
                               row |-> MockPrediction(m, d),
                               closurePredictions |-> predictions,
                               existed |-> Count(db_predictions, m) > 0])
    /\ UNCHANGED <<db_matches, db_predictions, db_clock, predictions,
                   upcomingMatches, loading, mountPending>>
    /\ UNCHANGED <<genVars, winVars, anaVars, leagueVars,
                   onbVars, browseVars, predVars>>

\* lines 120-124 and 129-133: the insert answers.  An error (no session for
\* the insert policy, the network) is thrown, caught and logged, and the
\* finally block clears generatingPrediction.
InsertAnswers(i, ok) ==
    /\ i \in 1..Len(calls)
    /\ calls[i].pc = "insert"
    /\ IF ok
       THEN /\ db_predictions' = InsertRow(db_predictions, calls[i].row, db_clock)
            /\ db_clock' = db_clock + 1
            /\ calls' = [calls EXCEPT ![i].pc = "fetchPredictions"]
            /\ UNCHANGED generatingPrediction
       ELSE /\ calls' = RemoveAt(calls, i)
            /\ generatingPrediction' = NoMatch
            /\ UNCHANGED <<db_predictions, db_clock>>
    /\ UNCHANGED <<db_matches, predictions, upcomingMatches, loading, mountPending>>
    /\ UNCHANGED <<genVars, winVars, anaVars, leagueVars,
                   onbVars, browseVars, predVars>>

\* line 127 with lines 45-67: await fetchPredictions()
FetchPredictionsAnswers(i, ok) ==
    /\ i \in 1..Len(calls)
    /\ calls[i].pc = "fetchPredictions"
    /\ predictions' = IF ok THEN SelectPredictions(db_predictions) ELSE predictions
    /\ calls' = [calls EXCEPT ![i].pc = "fetchUpcomingMatches"]
    /\ UNCHANGED <<db_matches, db_predictions, db_clock, upcomingMatches, loading,
                   generatingPrediction, mountPending>>
    /\ UNCHANGED <<genVars, winVars, anaVars, leagueVars,
                   onbVars, browseVars, predVars>>

\* line 128 with lines 69-97, then lines 131-133: await fetchUpcomingMatches()
\* of the render the button was clicked in, so the filter of lines 88-89 reads
\* the predictions of that render; then the finally block.
FetchUpcomingMatchesAnswers(i, ok) ==
    /\ i \in 1..Len(calls)
    /\ calls[i].pc = "fetchUpcomingMatches"
    /\ upcomingMatches' =
          IF ok THEN Unpredicted(SelectScheduled(db_matches),
                                 calls[i].closurePredictions)
                ELSE upcomingMatches
    /\ loading' = FALSE
    /\ generatingPrediction' = NoMatch
    /\ calls' = RemoveAt(calls, i)
    /\ UNCHANGED <<db_matches, db_predictions, db_clock, predictions, mountPending>>
    /\ UNCHANGED <<genVars, winVars, anaVars, leagueVars,
                   onbVars, browseVars, predVars>>

PageNext ==
    \/ \E ok \in BOOLEAN : MountFetchPredictions(ok)
    \/ \E ok \in BOOLEAN : MountFetchUpcomingMatches(ok)
    \/ \E m \in Matches, d \in PageDraws : ClickGenerate(m, d)
    \/ \E i \in 1..MaxCalls, ok \in BOOLEAN : InsertAnswers(i, ok)
    \/ \E i \in 1..MaxCalls, ok \in BOOLEAN : FetchPredictionsAnswers(i, ok)
    \/ \E i \in 1..MaxCalls, ok \in BOOLEAN : FetchUpcomingMatchesAnswers(i, ok)

-----------------------------------------------------------------------------
(* The mock generator taken alone: one call of generatePrediction up to the
   record of lines 104-118, for every value Math.random() can return *)

\* no record built yet
NoPrediction == [match_id |-> NoMatch]

GenInit ==
    /\ draws \in DrawTuples
    /\ mockPrediction = NoPrediction

BuildMockPrediction(m) ==
    /\ mockPrediction = NoPrediction
    /\ mockPrediction' = MockPrediction(m, draws)
    /\ UNCHANGED draws
    /\ UNCHANGED <<pageVars, winVars, anaVars, leagueVars,
                   onbVars, browseVars, predVars>>

GenNext == \E m \in Matches : BuildMockPrediction(m)

-----------------------------------------------------------------------------
(* The winner computations *)

MaxProb == 4          \* probabilities of the triples tried, in 0..MaxProb

Max3(a, b, c) ==
    IF a >= b /\ a >= c THEN a ELSE IF b >= c THEN b ELSE c

\* part_006 lines 136-143
getMostLikelyOutcome(prediction) ==
    LET max == Max3(prediction.home_win_probability,
                    prediction.draw_probability,
                    prediction.away_win_probability)
    IN  IF max = prediction.home_win_probability THEN "Home Win"
        ELSE IF max = prediction.away_win_probability THEN "Away Win"
        ELSE "Draw"

\* Predictions.tsx lines 72-82 (the team name of the result is left out)
getWinnerInfo(prediction) ==
    LET h == prediction.home_win_probability
        d == prediction.draw_probability
        a == prediction.away_win_probability
    IN  IF h > d /\ h > a THEN [prob |-> h, type |-> "home"]
        ELSE IF a > d /\ a > h THEN [prob |-> a, type |-> "away"]
        ELSE [prob |-> d, type |-> "draw"]

\* nothing rendered yet
NoOutcome == [by |-> "none"]

WinInit ==
    /\ probs \in [home_win_probability : 0..MaxProb,
                  draw_probability : 0..MaxProb,
                  away_win_probability : 0..MaxProb]
    /\ outcome = NoOutcome

\* part_006 line 236: the badge of a stored prediction
RenderMostLikelyOutcome ==
    /\ outcome = NoOutcome
    /\ outcome' = [by |-> "getMostLikelyOutcome",
                   winner |-> getMostLikelyOutcome(probs)]
    /\ UNCHANGED probs
    /\ UNCHANGED <<pageVars, genVars, anaVars, leagueVars,
                   onbVars, browseVars, predVars>>

\* Predictions.tsx line 84: the winner of the displayed prediction
RenderWinnerInfo ==
    /\ outcome = NoOutcome
    /\ outcome' = [by |-> "getWinnerInfo"] @@ getWinnerInfo(probs)
    /\ UNCHANGED probs
    /\ UNCHANGED <<pageVars, genVars, anaVars, leagueVars,
                   onbVars, browseVars, predVars>>

WinNext == RenderMostLikelyOutcome \/ RenderWinnerInfo

-----------------------------------------------------------------------------
(* The Analysis page: part_003 lines 209-569.  The aggregates are computed
   from the players state at every render. *)

MaxPlayers == 6       \* players fetched, for the rankings
MaxPerfPlayers == 3   \* players fetched, for the performance data
MaxPosPlayers == 4    \* players fetched, for the position distribution

\* "Alex" and "Alex Ben"
Names == {<<1>>, <<1, 2>>}
CounterValues == {0, 1, 2}
NoTeam == 0           \* the player has no team (team_id is null)

\* part_003 lines 25-30, together with a value of another feed ("Attacker",
\* part_004 line 37) and a name every object inherits; players.position is
\* TEXT NOT NULL without a CHECK (migration line 19).
Positions == {"Forward", "Midfielder", "Defender", "Goalkeeper",
              "Attacker", "__proto__"}

\* player.name.split(' ').pop() || player.name: the last word of the name
LastName(name) == name[Len(name)]

\* Array.prototype.sort((a, b) => b[metric] - a[metric]): the sort is stable,
\* so the result is the one of inserting the elements from left to right,
\* each behind every element whose value is not smaller.
InsertDesc(sorted, x, metric) ==
    LET smaller == {k \in 1..Len(sorted) : sorted[k][metric] < x[metric]}
        at == IF smaller = {} THEN Len(sorted) + 1
              ELSE CHOOSE k \in smaller : \A l \in smaller : k <= l
    IN  SubSeq(sorted, 1, at - 1) \o <<x>> \o SubSeq(sorted, at, Len(sorted))

\* A sort that was left out: the elements stay in the order they came in.
SortDescLeftOut(s, metric) == s

RECURSIVE SortDesc(_, _)
SortDesc(s, metric) ==
    IF s = <<>> THEN <<>>
    ELSE InsertDesc(SortDesc(SubSeq(s, 1, Len(s) - 1), metric), s[Len(s)], metric)

\* .filter(player => player[metric] > 0)
Positive(ps, metric) == SelectSeq(ps, LAMBDA p : p[metric] > 0)

ChartLimit == 10
TableLimit == 5
ScatterLimit == 20

\* lines 288-296
topScorers(filteredPlayers) ==
    LET top == Slice0(SortDesc(Positive(filteredPlayers, "goals"), "goals"),
                      ChartLimit)
    IN  [i \in 1..Len(top) |->
            [name |-> LastName(top[i].name),
             goals |-> top[i].goals,
             team |-> IF top[i].team = NoTeam THEN "Unknown" ELSE top[i].team]]

\* lines 512-520: the Most Goals column
mostGoals(filteredPlayers) == Slice0(topScorers(filteredPlayers), TableLimit)

\* lines 527-539: the Most Assists column
mostAssists(filteredPlayers) ==
    LET top == Slice0(SortDesc(Positive(filteredPlayers, "assists"), "assists"),
                      TableLimit)
    IN  [i \in 1..Len(top) |->
            [name |-> LastName(top[i].name), assists |-> top[i].assists]]

\* lines 546-558: the Most Active column
mostActive(filteredPlayers) ==
    LET top == Slice0(SortDesc(Positive(filteredPlayers, "matches_played"),
                               "matches_played"), TableLimit)
    IN  [i \in 1..Len(top) |->
            [name |-> LastName(top[i].name),
             matches_played |-> top[i].matches_played]]

\* lines 307-315
performanceData(filteredPlayers) ==
    LET some == Slice0(SelectSeq(filteredPlayers,
                                 LAMBDA p : p.goals > 0 \/ p.assists > 0),
                       ScatterLimit)
    IN  [i \in 1..Len(some) |->
            [name |-> LastName(some[i].name),
             goals |-> some[i].goals,
             assists |-> some[i].assists,
             total |-> some[i].goals + some[i].assists]]

\* lines 300-303, one step of the reduce: acc[position] = (acc[position] || 0) + 1
\* on acc = {}, kept as its own properties in order of creation.  The key
\* "__proto__" is no property of acc itself: reading it gives Object.prototype,
\* and assigning it the resulting string is ignored, so acc stays as it is.
CountPosition(acc, position) ==
    IF position = "__proto__" THEN acc
    ELSE IF \E k \in 1..Len(acc) : acc[k].position = position
    THEN [k \in 1..Len(acc) |->
            IF acc[k].position = position
            THEN [acc[k] EXCEPT !.count = acc[k].count + 1]
            ELSE acc[k]]
    ELSE Append(acc, [position |-> position, count |-> 1])

RECURSIVE ReducePositions(_)
ReducePositions(ps) ==
    IF ps = <<>> THEN <<>>
    ELSE CountPosition(ReducePositions(SubSeq(ps, 1, Len(ps) - 1)),
                       ps[Len(ps)].position)

\* A distribution that starts from the four positions of the form, each with
\* count 0.
positionDataSeeded(filteredPlayers) ==
    LET seed == <<[position |-> "Forward", count |-> 0],
                  [position |-> "Midfielder", count |-> 0],
                  [position |-> "Defender", count |-> 0],
                  [position |-> "Goalkeeper", count |-> 0]>>
        add[i \in 0..Len(filteredPlayers)] ==
            IF i = 0 THEN seed
            ELSE CountPosition(add[i - 1], filteredPlayers[i].position)
    IN  add[Len(filteredPlayers)]

\* lines 299-304: Object.entries(...).map(([position, count]) => ...)
positionData(filteredPlayers) == ReducePositions(filteredPlayers)

\* What each view of the page ranks by.
MetricOf(v) ==
    IF v \in {"topScorers", "mostGoals"} THEN "goals"
    ELSE IF v = "mostAssists" THEN "assists"
    ELSE "matches_played"

LimitOf(v) == IF v = "topScorers" THEN ChartLimit ELSE TableLimit

RankViews == {"topScorers", "mostGoals", "mostAssists", "mostActive"}

Player(name, goals, assists, matches_played, position, team) ==
    [name |-> name, goals |-> goals, assists |-> assists,
     matches_played |-> matches_played, position |-> position, team |-> team]

SeqsUpTo(S, n) == UNION {[1..k -> S] : k \in 0..n}

\* nothing computed yet
NoAggregate == <<[name |-> <<>>]>>

\* The players a ranking is tried on: the counter the view ranks by takes
\* every value, the other counters keep the default 0 of the players table.
RankPlayers(v) ==
    {Player(n, IF MetricOf(v) = "goals" THEN c ELSE 0,
               IF MetricOf(v) = "assists" THEN c ELSE 0,
               IF MetricOf(v) = "matches_played" THEN c ELSE 0,
               "Forward", 1) : n \in Names, c \in CounterValues}

RankInit ==
    /\ view \in RankViews
    /\ players \in SeqsUpTo(RankPlayers(view), MaxPlayers)
    /\ aggregate = NoAggregate

RenderTopScorers ==
    /\ view = "topScorers" /\ aggregate = NoAggregate
    /\ aggregate' = topScorers(players)
    /\ UNCHANGED <<players, view>>
    /\ UNCHANGED <<pageVars, genVars, winVars, leagueVars,
                   onbVars, browseVars, predVars>>

RenderMostGoals ==
    /\ view = "mostGoals" /\ aggregate = NoAggregate
    /\ aggregate' = mostGoals(players)
    /\ UNCHANGED <<players, view>>
    /\ UNCHANGED <<pageVars, genVars, winVars, leagueVars,
                   onbVars, browseVars, predVars>>

RenderMostAssists ==
    /\ view = "mostAssists" /\ aggregate = NoAggregate
    /\ aggregate' = mostAssists(players)
    /\ UNCHANGED <<players, view>>
    /\ UNCHANGED <<pageVars, genVars, winVars, leagueVars,
                   onbVars, browseVars, predVars>>

RenderMostActive ==
    /\ view = "mostActive" /\ aggregate = NoAggregate
    /\ aggregate' = mostActive(players)
    /\ UNCHANGED <<players, view>>
    /\ UNCHANGED <<pageVars, genVars, winVars, leagueVars,
                   onbVars, browseVars, predVars>>

RankNext ==
    \/ RenderTopScorers
    \/ RenderMostGoals
    \/ RenderMostAssists
    \/ RenderMostActive

PerfInit ==
    /\ view = "performanceData"
    /\ players \in SeqsUpTo({Player(n, g, a, 0, "Forward", 1) :
                                 n \in Names, g \in CounterValues,
                                 a \in CounterValues}, MaxPerfPlayers)
    /\ aggregate = NoAggregate

RenderPerformanceData ==
    /\ view = "performanceData" /\ aggregate = NoAggregate
    /\ aggregate' = performanceData(players)
    /\ UNCHANGED <<players, view>>
    /\ UNCHANGED <<pageVars, genVars, winVars, leagueVars,
                   onbVars, browseVars, predVars>>

PosInit ==
    /\ view = "positionData"
    /\ players \in SeqsUpTo({Player(<<1>>, 0, 0, 0, pos, 1) : pos \in Positions},
                            MaxPosPlayers)
    /\ aggregate = NoAggregate

RenderPositionData ==
    /\ view = "positionData" /\ aggregate = NoAggregate
    /\ aggregate' = positionData(players)
    /\ UNCHANGED <<players, view>>
    /\ UNCHANGED <<pageVars, genVars, winVars, leagueVars,
                   onbVars, browseVars, predVars>>

-----------------------------------------------------------------------------
(* The Analysis page as a whole (part_003 lines 242-321) and the league    *)
(* filter of the Teams page (part_007 lines 21-83)                         *)

MaxFetched == 2       \* rows a query of fetchData or fetchTeams returns

\* Two league names that differ only in case.
Leagues == {"Premier League", "premier league"}
TeamNames == {1, 2}
NullScore == -1       \* home_score / away_score is null

\* teams.name is UNIQUE (migration line 4)
TeamRows == [name : TeamNames, league : Leagues]
TeamTables ==
    {t \in SeqsUpTo(TeamRows, MaxFetched) :
        \A i, j \in 1..Len(t) : t[i].name = t[j].name => i = j}

\* The players fetched: teams (name) of the select is the name of the team of
\* team_id, absent (NoTeam) when team_id is null.  The players of team 1
\* have every number of goals; one player of team 2 and one without a team.
PlayerRows ==
    {Player(<<1>>, g, 0, 0, "Forward", 1) : g \in CounterValues}
    \cup {Player(<<1>>, 2, 0, 0, "Forward", 2),
          Player(<<1>>, 1, 0, 0, "Forward", NoTeam)}
FetchedPlayers == SeqsUpTo(PlayerRows, MaxFetched)

Match(league, status, home_score, away_score) ==
    [league |-> league, status |-> status,
     home_score |-> home_score, away_score |-> away_score]

\* Rows of table matches: completed ones without scores and with 2:1, and a
\* scheduled one.
MatchRows ==
    {Match(l, "completed", sc[1], sc[2]) :
        l \in Leagues, sc \in {<<NullScore, NullScore>>, <<2, 1>>}}
    \cup {Match("Premier League", "scheduled", NullScore, NullScore)}
MatchTables == SeqsUpTo(MatchRows, MaxFetched)

\* supabase.from('matches').select('*').eq('status', 'completed')
SelectCompleted(tbl) == SelectSeq(tbl, LAMBDA m : m.status = "completed")

\* [...new Set(teams.map(team => team.league))], as the set of its elements
leagues(ts) == {ts[i].league : i \in 1..Len(ts)}

\* teams.find(t => t.name === player.teams?.name)?.league === selectedLeague
TeamLeagueIs(ts, player, sel) ==
    LET hits == {i \in 1..Len(ts) : ts[i].name = player.team}
    IN  /\ hits # {}
        /\ ts[CHOOSE i \in hits : \A j \in hits : i <= j].league = sel

\* lines 276-281
filteredPlayersOf(ps, ts, sel) ==
    IF sel = "all" THEN ps
    ELSE SelectSeq(ps, LAMBDA player : TeamLeagueIs(ts, player, sel))

\* String.prototype.toLowerCase on the league names of the model
ToLowerCase(str) == IF str = "Premier League" THEN "premier league" ELSE str

\* A filter that compares the league names without regard to case.
filteredMatchesIgnoringCase(ms, sel) ==
    IF sel = "all" THEN ms
    ELSE SelectSeq(ms, LAMBDA match :
                           ToLowerCase(match.league) = ToLowerCase(sel))

\* lines 283-285
filteredMatches(ms, sel) ==
    IF sel = "all" THEN ms
    ELSE SelectSeq(ms, LAMBDA match : match.league = sel)

\* (score || 0)
OrZero(score) == IF score = NullScore THEN 0 ELSE score

RECURSIVE SumGoals(_)
SumGoals(fm) ==
    IF fm = <<>> THEN 0
    ELSE SumGoals(SubSeq(fm, 1, Len(fm) - 1))
         + OrZero(fm[Len(fm)].home_score) + OrZero(fm[Len(fm)].away_score)

\* A reduce that starts from 1 instead of 0.
totalGoalsFromOne(fm) == 1 + SumGoals(fm)

\* lines 318-320
totalGoals(fm) == 0 + SumGoals(fm)

\* line 321: (totalGoals / filteredMatches.length).toFixed(2), or 0 when no
\* match is left; the result counts hundredths.
averageGoalsPerMatch(fm) ==
    IF Len(fm) > 0 THEN ToFixed2(totalGoals(fm), Len(fm)) ELSE 0

\* Which array an expression evaluates to: the array held in the state
\* players, or an array made during the render.
filteredPlayersArray(sel) == IF sel = "all" THEN "players" ELSE "made"

\* A filter that hands back the array it was called on.
FilterResultIsReceiver(receiver) == receiver

\* Array.prototype.filter returns a new array (lines 289, 528, 547)
FilterResult(receiver) == "made"

\* Array.prototype.sort sorts the array it is called on in place: what the
\* state players holds after receiver.sort(...) gave sorted.
AfterSort(ps, receiver, sorted) == IF receiver = "players" THEN sorted ELSE ps

\* The state players after one render: the three sorts of lines 288-290,
\* 527-529 and 546-548, each on filteredPlayers.filter(...).
PlayersAfterRender(ps, ts, sel) ==
    LET arr == FilterResult(filteredPlayersArray(sel))
        sortBy(cur, metric) ==
            AfterSort(cur, arr,
                      SortDesc(Positive(filteredPlayersOf(cur, ts, sel), metric),
                               metric))
    IN  sortBy(sortBy(sortBy(ps, "goals"), "assists"), "matches_played")

\* Everything one render of the page computes, lines 274-321 and 512-558.
RenderAnalysis(ps, ts, ms, sel) ==
    LET fp == filteredPlayersOf(ps, ts, sel)
        fm == filteredMatches(ms, sel)
    IN  [leagues |-> leagues(ts),
         filteredPlayers |-> fp,
         filteredMatches |-> fm,
         topScorers |-> topScorers(fp),
         mostAssists |-> mostAssists(fp),
         mostActive |-> mostActive(fp),
         positionData |-> positionData(fp),
         performanceData |-> performanceData(fp),
         totalGoals |-> totalGoals(fm),
         averageGoalsPerMatch |-> averageGoalsPerMatch(fm)]

\* String.prototype.includes on lower-cased strings, for the search terms of
\* the model: "premier" is part of both league names, "zz" of none, and
\* neither is part of a team name or a coach.
SearchTerms == {"", "premier", "zz"}
SearchHit(team, term) ==
    ToLowerCase(team.league) = "premier league" /\ ToLowerCase(term) = "premier"

\* part_007 lines 65-81
filterTeams(ts, term, filter) ==
    LET searched == IF term # "" THEN SelectSeq(ts, LAMBDA team : SearchHit(team, term))
                    ELSE ts
    IN  IF filter # "all"
        THEN SelectSeq(searched, LAMBDA team : team.league = filter)
        ELSE searched

\* The first render of the page that is mounted: part_003 lines 243-247,
\* part_007 lines 22-26.
LeaguePagesInit ==
    /\ view \in {"Analysis", "Teams"}
    /\ players = <<>> /\ teams = <<>> /\ matches = <<>>
    /\ selectedLeague = "all" /\ dataLoading = TRUE
    /\ searchTerm = "" /\ leagueFilter = "all" /\ filteredTeams = <<>>
    /\ aggregate = RenderAnalysis(<<>>, <<>>, <<>>, "all")

\* part_003 lines 253-272: the three queries of fetchData answer (a query
\* that fails gives data null, hence []), and the page renders.
FetchDataAnswers ==
    /\ view = "Analysis" /\ dataLoading
    /\ \E t \in TeamTables, p \in FetchedPlayers, m \in MatchTables :
          /\ teams' = t
          /\ matches' = SelectCompleted(m)
          /\ players' = PlayersAfterRender(p, t, selectedLeague)
          /\ aggregate' = RenderAnalysis(p, t, SelectCompleted(m), selectedLeague)
    /\ dataLoading' = FALSE
    /\ UNCHANGED <<view, selectedLeague, searchTerm, leagueFilter, filteredTeams>>
    /\ UNCHANGED <<pageVars, genVars, winVars,
                   onbVars, browseVars, predVars>>

\* part_003 lines 351-360: a league of the select is chosen, and the page
\* renders.
SetSelectedLeague(l) ==
    /\ view = "Analysis"
    /\ l \in leagues(teams) \cup {"all"}
    /\ l # selectedLeague
    /\ selectedLeague' = l
    /\ players' = PlayersAfterRender(players, teams, l)
    /\ aggregate' = RenderAnalysis(players, teams, matches, l)
    /\ UNCHANGED <<view, teams, matches, dataLoading, searchTerm, leagueFilter,
                   filteredTeams>>
    /\ UNCHANGED <<pageVars, genVars, winVars,
                   onbVars, browseVars, predVars>>

\* part_007 lines 36-64 and 32-34: fetchTeams answers, and the effect runs
\* filterTeams.
FetchTeamsAnswers(t) ==
    /\ view = "Teams" /\ dataLoading
    /\ teams' = t
    /\ dataLoading' = FALSE
    /\ filteredTeams' = filterTeams(t, searchTerm, leagueFilter)
    /\ UNCHANGED <<view, players, aggregate, matches, selectedLeague,
                   searchTerm, leagueFilter>>
    /\ UNCHANGED <<pageVars, genVars, winVars,
                   onbVars, browseVars, predVars>>

\* part_007 line 113 and 32-34
SetSearchTerm(term) ==
    /\ view = "Teams" /\ ~dataLoading
    /\ term # searchTerm
    /\ searchTerm' = term
    /\ filteredTeams' = filterTeams(teams, term, leagueFilter)
    /\ UNCHANGED <<view, players, aggregate, teams, matches, selectedLeague,
                   dataLoading, leagueFilter>>
    /\ UNCHANGED <<pageVars, genVars, winVars,
                   onbVars, browseVars, predVars>>

\* part_007 lines 118-127 and 32-34
SetLeagueFilter(l) ==
    /\ view = "Teams" /\ ~dataLoading
    /\ l \in leagues(teams) \cup {"all"}
    /\ l # leagueFilter
    /\ leagueFilter' = l
    /\ filteredTeams' = filterTeams(teams, searchTerm, l)
    /\ UNCHANGED <<view, players, aggregate, teams, matches, selectedLeague,
                   dataLoading, searchTerm>>
    /\ UNCHANGED <<pageVars, genVars, winVars,
                   onbVars, browseVars, predVars>>

LeaguePagesNext ==
    \/ FetchDataAnswers
    \/ \E l \in Leagues \cup {"all"} : SetSelectedLeague(l)
    \/ \E t \in TeamTables : FetchTeamsAnswers(t)
    \/ \E term \in SearchTerms : SetSearchTerm(term)
    \/ \E l \in Leagues \cup {"all"} : SetLeagueFilter(l)

-----------------------------------------------------------------------------
(* The data store under the commands of its clients: the migration, lines  *)
(* 34-87                                                                   *)

uiVars == <<predictions, upcomingMatches, loading, generatingPrediction,
            mountPending, calls>>

\* Policies as those of table matches, with UPDATE and DELETE.
PredictionPoliciesWithUpdate == {"SELECT", "INSERT", "UPDATE", "DELETE"}

\* Row level security is enabled on match_predictions (line 66) and the table
\* has a policy for SELECT (line 72) and for INSERT (line 87) and no other.
PredictionPolicies == {"SELECT", "INSERT"}

\* lines 71 and 83-85
MatchPolicies == {"SELECT", "INSERT", "UPDATE", "DELETE"}

\* With row level security a command for which the table has no policy sees
\* no row and changes none.
Permitted(policies, command) == command \in policies

\* The values a client may try to write into a probability.
UpdateValues == {0, 10000}

StoreInit ==
    /\ db_matches \in [Matches -> [home_team_id : Teams, away_team_id : Teams,
                                   status : {"scheduled"}]]
    /\ db_predictions = <<>>
    /\ db_clock = 0
    /\ predictions = Idle /\ upcomingMatches = Idle /\ loading = Idle
    /\ generatingPrediction = Idle /\ mountPending = Idle /\ calls = Idle

\* part_006 lines 120-124, by any session: the insert of a generated record.
\* match_id must reference a row of matches (line 51).
InsertPrediction(m, d) ==
    /\ db_clock < MaxRows
    /\ IF Permitted(PredictionPolicies, "INSERT") /\ m \in DOMAIN db_matches
       THEN /\ db_predictions' = InsertRow(db_predictions, MockPrediction(m, d),
                                           db_clock)
            /\ db_clock' = db_clock + 1
       ELSE UNCHANGED <<db_predictions, db_clock>>
    /\ UNCHANGED <<db_matches, uiVars>>
    /\ UNCHANGED <<genVars, winVars, anaVars, leagueVars,
                   onbVars, browseVars, predVars>>

\* UPDATE match_predictions SET draw_probability = v WHERE id = (row i).id
UpdatePrediction(i, v) ==
    /\ i \in 1..Len(db_predictions)
    /\ db_predictions' =
          IF Permitted(PredictionPolicies, "UPDATE")
          THEN [db_predictions EXCEPT ![i].draw_probability = v]
          ELSE db_predictions
    /\ UNCHANGED <<db_matches, db_clock, uiVars>>
    /\ UNCHANGED <<genVars, winVars, anaVars, leagueVars,
                   onbVars, browseVars, predVars>>

\* DELETE FROM match_predictions WHERE id = (row i).id
DeletePrediction(i) ==
    /\ i \in 1..Len(db_predictions)
    /\ db_predictions' =
          IF Permitted(PredictionPolicies, "DELETE")
          THEN RemoveAt(db_predictions, i)
          ELSE db_predictions
    /\ UNCHANGED <<db_matches, db_clock, uiVars>>
    /\ UNCHANGED <<genVars, winVars, anaVars, leagueVars,
                   onbVars, browseVars, predVars>>

\* DELETE FROM matches WHERE id = m, by an authenticated session (line 85);
\* ON DELETE CASCADE of match_predictions.match_id (line 51) deletes the
\* predictions of the match, whatever the policies of match_predictions.
DeleteMatch(m) ==
    /\ m \in DOMAIN db_matches
    /\ Permitted(MatchPolicies, "DELETE")
    /\ db_matches' = [x \in DOMAIN db_matches \ {m} |-> db_matches[x]]
    /\ db_predictions' = SelectSeq(db_predictions, LAMBDA row : row.match_id # m)
    /\ UNCHANGED <<db_clock, uiVars>>
    /\ UNCHANGED <<genVars, winVars, anaVars, leagueVars,
                   onbVars, browseVars, predVars>>

StoreNext ==
    \/ \E m \in Matches, d \in PageDraws : InsertPrediction(m, d)
    \/ \E i \in 1..MaxRows, v \in UpdateValues : UpdatePrediction(i, v)
    \/ \E i \in 1..MaxRows : DeletePrediction(i)
    \/ \E m \in Matches : DeleteMatch(m)

-----------------------------------------------------------------------------
(* The onboarding flow: Index with AuthForm, PlayerIdentity, CoachIdentity *)

MaxTasks == 3         \* requests awaited and timers set, at one time

Roles == {"fan", "player", "coach"}
NoRole == "null"
Screens == {"role-selection", "auth", "player-identity", "coach-identity",
            "success"}
AuthTabs == {"login", "signup"}

\* Matches.tsx line 254: `${role}-identity`
IdentityScreen(role) ==
    IF role = "player" THEN "player-identity" ELSE "coach-identity"

\* The role an identity form writes: part_003 line 59, Navigation.tsx line 403.
RoleOfForm(screen) == IF screen = "player-identity" THEN "player" ELSE "coach"

\* A request a form awaits: its answer sets the loading of the form only while
\* the form is mounted.
Task(kind, role) == [kind |-> kind, role |-> role, mounted |-> TRUE]

\* A setTimeout callback, or a handler of Index at an await: no unmount of a
\* form clears it.
Timer(kind, role) == [kind |-> kind, role |-> role, mounted |-> FALSE]

Unmounted(tasks) ==
    [i \in 1..Len(tasks) |-> [tasks[i] EXCEPT !.mounted = FALSE]]

\* setCurrentScreen: another screen unmounts the form that was shown, and the
\* form of the new screen starts with loading false; the requests and timers
\* of the old form stay.
SetCurrentScreen(screen, tasks) ==
    /\ currentScreen' = screen
    /\ IF screen = currentScreen
         THEN inFlight' = tasks /\ UNCHANGED formLoading
         ELSE inFlight' = Unmounted(tasks) /\ formLoading' = FALSE

\* The forms render on 'auth' only with a role (Matches.tsx lines 278-285).
FormShown ==
    \/ currentScreen = "auth" /\ selectedRole # NoRole
    \/ currentScreen \in {"player-identity", "coach-identity"}

\* The insert into profiles stores the row when the request gets through and
\* the user has no row yet (id is the primary key); the handlers insert only
\* with a signed-in user, whose id the INSERT policy accepts.
ProfileStored(ok) == ok /\ user /\ db_profiles = {}

\* The setLoading(false) of a finally block.
LoadingAfter(task) == IF task.mounted THEN FALSE ELSE formLoading

OnboardingInit ==
    /\ currentScreen = "role-selection"
    /\ selectedRole = NoRole
    /\ user = FALSE
    /\ formLoading = FALSE
    /\ inFlight = <<>>
    /\ db_profiles = {}

\* Matches.tsx lines 225-228
handleRoleSelect(role) ==
    /\ currentScreen = "role-selection"
    /\ selectedRole' = role
    /\ SetCurrentScreen("auth", inFlight)
    /\ UNCHANGED <<user, db_profiles>>
    /\ UNCHANGED <<pageVars, genVars, winVars, anaVars, leagueVars,
                   browseVars, predVars>>

\* Navigation.tsx lines 76-83 and 100-119: handleLogin and handleSignup up to
\* their await (a signup the validation rejects changes nothing kept here).
\* The submit button is disabled while loading (lines 248, 322).
handleAuthSubmit(tab) ==
    /\ currentScreen = "auth" /\ selectedRole # NoRole
    /\ ~formLoading
    /\ Len(inFlight) < MaxTasks
    /\ formLoading' = TRUE
    /\ inFlight' = Append(inFlight, Task(tab, selectedRole))
    /\ UNCHANGED <<currentScreen, selectedRole, user, db_profiles>>
    /\ UNCHANGED <<pageVars, genVars, winVars, anaVars, leagueVars,
                   browseVars, predVars>>

\* Navigation.tsx lines 86-97 and 131-142: the auth service answers.  A login
\* that succeeds leaves a session; a signup does so only when the project
\* needs no confirmation of the address.  Success sets the timer of onSuccess
\* with the role the form was rendered with.
AuthAnswers(i, ok, session) ==
    /\ i \in 1..Len(inFlight)
    /\ inFlight[i].kind \in AuthTabs
    /\ LET task == inFlight[i]
           rest == RemoveAt(inFlight, i)
       IN  /\ user' = (user \/ (ok /\ (task.kind = "login" \/ session)))
           /\ inFlight' = IF ok
                            THEN Append(rest, Timer("onSuccess", task.role))
                            ELSE rest
           /\ formLoading' = LoadingAfter(task)
    /\ UNCHANGED <<currentScreen, selectedRole, db_profiles>>
    /\ UNCHANGED <<pageVars, genVars, winVars, anaVars, leagueVars,
                   browseVars, predVars>>

\* Matches.tsx lines 230-234 and 252-256: the timer of lines 91 and 136 of
\* Navigation.tsx fires handleAuthSuccess(role), which runs to its first await
\* for a fan and to the identity screen for a player or a coach.
handleAuthSuccess(i) ==
    /\ i \in 1..Len(inFlight)
    /\ inFlight[i].kind = "onSuccess"
    /\ LET task == inFlight[i]
           rest == RemoveAt(inFlight, i)
       IN  IF task.role = "fan"
             THEN /\ inFlight' = Append(rest, Timer("fanProfile", "fan"))
                  /\ UNCHANGED <<currentScreen, formLoading>>
             ELSE SetCurrentScreen(IdentityScreen(task.role), rest)
    /\ UNCHANGED <<selectedRole, user, db_profiles>>
    /\ UNCHANGED <<pageVars, genVars, winVars, anaVars, leagueVars,
                   browseVars, predVars>>

\* Matches.tsx lines 234-251: getUser and the insert answer.  Without a user
\* nothing is inserted; an error of the insert is logged; either way the
\* success screen is set.
FanProfileAnswers(i, ok) ==
    /\ i \in 1..Len(inFlight)
    /\ inFlight[i].kind = "fanProfile"
    /\ db_profiles' = IF ProfileStored(ok) THEN {"fan"} ELSE db_profiles
    /\ SetCurrentScreen("success", RemoveAt(inFlight, i))
    /\ UNCHANGED <<selectedRole, user>>
    /\ UNCHANGED <<pageVars, genVars, winVars, anaVars, leagueVars,
                   browseVars, predVars>>

\* part_003 lines 32-44 and Navigation.tsx lines 376-387: handleSubmit of an
\* identity form up to its await (a form the validation rejects changes
\* nothing kept here).  The button is disabled while loading.
handleIdentitySubmit ==
    /\ currentScreen \in {"player-identity", "coach-identity"}
    /\ ~formLoading
    /\ Len(inFlight) < MaxTasks
    /\ formLoading' = TRUE
    /\ inFlight' = Append(inFlight,
                          Task("saveProfile", RoleOfForm(currentScreen)))
    /\ UNCHANGED <<currentScreen, selectedRole, user, db_profiles>>
    /\ UNCHANGED <<pageVars, genVars, winVars, anaVars, leagueVars,
                   browseVars, predVars>>

\* part_003 lines 45-75 and Navigation.tsx lines 388-419: getUser and the
\* insert answer.  Without a user, or with an error of the insert, a message
\* is shown; a stored row sets the timer of onComplete.
SaveProfileAnswers(i, ok) ==
    /\ i \in 1..Len(inFlight)
    /\ inFlight[i].kind = "saveProfile"
    /\ LET task == inFlight[i]
           rest == RemoveAt(inFlight, i)
       IN  /\ db_profiles' = IF ProfileStored(ok) THEN {task.role}
                             ELSE db_profiles
           /\ inFlight' = IF ProfileStored(ok)
                            THEN Append(rest, Timer("onComplete", task.role))
                            ELSE rest
           /\ formLoading' = LoadingAfter(task)
    /\ UNCHANGED <<currentScreen, selectedRole, user>>
    /\ UNCHANGED <<pageVars, genVars, winVars, anaVars, leagueVars,
                   browseVars, predVars>>

\* Matches.tsx lines 259-261: the timer of part_003 line 69 or Navigation.tsx
\* line 413 fires onComplete.
handleIdentityComplete(i) ==
    /\ i \in 1..Len(inFlight)
    /\ inFlight[i].kind = "onComplete"
    /\ SetCurrentScreen("success", RemoveAt(inFlight, i))
    /\ UNCHANGED <<selectedRole, user, db_profiles>>
    /\ UNCHANGED <<pageVars, genVars, winVars, anaVars, leagueVars,
                   browseVars, predVars>>

\* Matches.tsx lines 263-266, from the Back button of a form (Navigation.tsx
\* lines 159 and 430), which stays enabled while the form is loading.
handleBackToRoleSelection ==
    /\ FormShown
    /\ selectedRole' = NoRole
    /\ SetCurrentScreen("role-selection", inFlight)
    /\ UNCHANGED <<user, db_profiles>>
    /\ UNCHANGED <<pageVars, genVars, winVars, anaVars, leagueVars,
                   browseVars, predVars>>

OnboardingNext ==
    \/ \E role \in Roles : handleRoleSelect(role)
    \/ \E tab \in AuthTabs : handleAuthSubmit(tab)
    \/ \E i \in 1..MaxTasks, ok \in BOOLEAN, session \in BOOLEAN :
          AuthAnswers(i, ok, session)
    \/ \E i \in 1..MaxTasks : handleAuthSuccess(i)
    \/ \E i \in 1..MaxTasks, ok \in BOOLEAN : FanProfileAnswers(i, ok)
    \/ handleIdentitySubmit
    \/ \E i \in 1..MaxTasks, ok \in BOOLEAN : SaveProfileAnswers(i, ok)
    \/ \E i \in 1..MaxTasks : handleIdentityComplete(i)
    \/ handleBackToRoleSelection

-----------------------------------------------------------------------------
(* The team-browsing page: Teams.tsx *)

MaxBrowseRequests == 3   \* requests of the page in flight at one time

BrowseLeagues == {1, 2}
NoLeague == 0            \* selectedLeague ""
BrowseTeamIds == {1, 2, 3}
NoSelectedTeam == 0              \* selectedTeam null

\* What the API answers to /teams/{league}: the ids of the teams.
TeamsOf(league) == IF league = 1 THEN {1, 2} ELSE {3}

\* What the API answers to /players?team=: team 3 has no player on record.
Squad(teamId) ==
    IF teamId = 3 THEN <<>> ELSE <<[id |-> 10 * teamId + 1, team |-> teamId]>>

Request(kind, of) == [kind |-> kind, of |-> of]

\* Teams.tsx lines 4-12
BrowseInit ==
    /\ browseLeague = NoLeague
    /\ browseLoading = FALSE
    /\ browseTeams = {}
    /\ browsePlayers = <<>>
    /\ selectedTeam = NoSelectedTeam
    /\ loadingPlayers = FALSE
    /\ browseRequests = <<>>

\* Teams.tsx lines 113-121: onChange of the country select.
SelectCountry ==
    /\ browseLeague' = NoLeague
    /\ browseTeams' = {}
    /\ browsePlayers' = <<>>
    /\ selectedTeam' = NoSelectedTeam
    /\ UNCHANGED <<browseLoading, loadingPlayers, browseRequests>>
    /\ UNCHANGED <<pageVars, genVars, winVars, anaVars, leagueVars,
                   onbVars, predVars>>

\* Teams.tsx line 142 with the effect of lines 44-61 up to its await: the
\* effect returns at once for the empty option.
SelectLeague(league) ==
    /\ league # browseLeague
    /\ browseLeague' = league
    /\ IF league = NoLeague
         THEN UNCHANGED <<browseLoading, browsePlayers, selectedTeam,
                          browseRequests>>
         ELSE /\ Len(browseRequests) < MaxBrowseRequests
              /\ browseLoading' = TRUE
              /\ browsePlayers' = <<>>
              /\ selectedTeam' = NoSelectedTeam
              /\ browseRequests' =
                     Append(browseRequests, Request("teams", league))
    /\ UNCHANGED <<browseTeams, loadingPlayers>>
    /\ UNCHANGED <<pageVars, genVars, winVars, anaVars, leagueVars,
                   onbVars, predVars>>

\* Teams.tsx lines 51-59: the teams request answers, or fails.
TeamsAnswer(i, ok) ==
    /\ i \in 1..Len(browseRequests)
    /\ browseRequests[i].kind = "teams"
    /\ browseTeams' = IF ok THEN TeamsOf(browseRequests[i].of) ELSE browseTeams
    /\ browseLoading' = FALSE
    /\ browseRequests' = RemoveAt(browseRequests, i)
    /\ UNCHANGED <<browseLeague, browsePlayers, selectedTeam, loadingPlayers>>
    /\ UNCHANGED <<pageVars, genVars, winVars, anaVars, leagueVars,
                   onbVars, predVars>>

\* Teams.tsx lines 64-68, from the click on a team card (line 172); the cards
\* are rendered while the teams are not loading (lines 158-160).
fetchPlayers(teamId) ==
    /\ ~browseLoading
    /\ teamId \in browseTeams
    /\ Len(browseRequests) < MaxBrowseRequests
    /\ loadingPlayers' = TRUE
    /\ browsePlayers' = <<>>
    /\ selectedTeam' = teamId
    /\ browseRequests' = Append(browseRequests, Request("players", teamId))
    /\ UNCHANGED <<browseLeague, browseLoading, browseTeams>>
    /\ UNCHANGED <<pageVars, genVars, winVars, anaVars, leagueVars,
                   onbVars, predVars>>

\* Teams.tsx lines 69-76: a players request answers, or fails.
PlayersAnswer(i, ok) ==
    /\ i \in 1..Len(browseRequests)
    /\ browseRequests[i].kind = "players"
    /\ browsePlayers' = IF ok THEN Squad(browseRequests[i].of)
                        ELSE browsePlayers
    /\ loadingPlayers' = FALSE
    /\ browseRequests' = RemoveAt(browseRequests, i)
    /\ UNCHANGED <<browseLeague, browseLoading, browseTeams, selectedTeam>>
    /\ UNCHANGED <<pageVars, genVars, winVars, anaVars, leagueVars,
                   onbVars, predVars>>

BrowseNext ==
    \/ SelectCountry
    \/ \E league \in BrowseLeagues \cup {NoLeague} : SelectLeague(league)
    \/ \E i \in 1..MaxBrowseRequests, ok \in BOOLEAN : TeamsAnswer(i, ok)
    \/ \E teamId \in BrowseTeamIds : fetchPlayers(teamId)
    \/ \E i \in 1..MaxBrowseRequests, ok \in BOOLEAN : PlayersAnswer(i, ok)

-----------------------------------------------------------------------------
(* The team-pair predictor page: Predictions.tsx lines 18-70 *)

PredictTeamNames == {"Arsenal", "Chelsea", "Liverpool"}
NotChosen == ""          \* the empty option of a select
\* prediction null
NoResult == [home_team |-> "null", away_team |-> "null"]
NoError == "null"        \* error null
Details == {"", "Team not found"}   \* err.response?.data?.detail, if any

BothTeamsMessage == "Please select both teams."
DifferentTeamsMessage == "Home and Away teams must be different."
FailedMessage == "Failed to generate prediction. Please try again."
TeamListMessage == "Unable to load team list. Make sure backend is running."

PredictRequest(kind, home, away) ==
    [kind |-> kind, home_team |-> home, away_team |-> away]

\* response.data of /predict: what the backend computed for the pair sent.
ResponseData(request) ==
    [home_team |-> request.home_team, away_team |-> request.away_team]

\* Lines 63-66: err.response?.data?.detail || "Failed to generate ..."
ErrorOf(detail) == IF detail # "" THEN detail ELSE FailedMessage

\* Lines 19-24, with the fetchTeams of the mount effect (lines 37-39) awaited.
PredictInit ==
    /\ predictTeams = {}
    /\ homeTeam = NotChosen
    /\ awayTeam = NotChosen
    /\ predictLoading = FALSE
    /\ predictionResult = NoResult
    /\ error = NoError
    /\ predictRequests = <<PredictRequest("teams", NotChosen, NotChosen)>>

\* Lines 27-35: the team list answers, or fails.
fetchTeamsAnswers(i, ok) ==
    /\ i \in 1..Len(predictRequests)
    /\ predictRequests[i].kind = "teams"
    /\ IF ok
         THEN predictTeams' = PredictTeamNames /\ UNCHANGED error
         ELSE error' = TeamListMessage /\ UNCHANGED predictTeams
    /\ predictRequests' = RemoveAt(predictRequests, i)
    /\ UNCHANGED <<homeTeam, awayTeam, predictLoading, predictionResult>>
    /\ UNCHANGED <<pageVars, genVars, winVars, anaVars, leagueVars,
                   onbVars, browseVars>>

\* Lines 115-117: onChange of the home select, enabled at all times.
setHomeTeam(team) ==
    /\ team \in predictTeams \cup {NotChosen}
    /\ team # homeTeam
    /\ homeTeam' = team
    /\ UNCHANGED <<predictTeams, awayTeam, predictLoading, predictionResult,
                   error, predictRequests>>
    /\ UNCHANGED <<pageVars, genVars, winVars, anaVars, leagueVars,
                   onbVars, browseVars>>

\* Lines 135-137: onChange of the away select.
setAwayTeam(team) ==
    /\ team \in predictTeams \cup {NotChosen}
    /\ team # awayTeam
    /\ awayTeam' = team
    /\ UNCHANGED <<predictTeams, homeTeam, predictLoading, predictionResult,
                   error, predictRequests>>
    /\ UNCHANGED <<pageVars, genVars, winVars, anaVars, leagueVars,
                   onbVars, browseVars>>

\* Lines 41-59: handlePredict up to its await, from the button of lines
\* 149-152, which is disabled while loading or with a team not chosen.
handlePredict ==
    /\ ~(predictLoading \/ homeTeam = NotChosen \/ awayTeam = NotChosen)
    /\ IF homeTeam = NotChosen \/ awayTeam = NotChosen
         THEN /\ error' = BothTeamsMessage
              /\ UNCHANGED <<predictLoading, predictionResult,
                             predictRequests>>
         ELSE IF homeTeam = awayTeam
         THEN /\ error' = DifferentTeamsMessage
              /\ UNCHANGED <<predictLoading, predictionResult,
                             predictRequests>>
         ELSE /\ predictLoading' = TRUE
              /\ error' = NoError
              /\ predictionResult' = NoResult
              /\ predictRequests' =
                     Append(predictRequests,
                            PredictRequest("predict", homeTeam, awayTeam))
    /\ UNCHANGED <<predictTeams, homeTeam, awayTeam>>
    /\ UNCHANGED <<pageVars, genVars, winVars, anaVars, leagueVars,
                   onbVars, browseVars>>

\* A handler whose setLoading(false) runs after a response only.
PredictAnswersWithoutFinally(i, ok, detail) ==
    /\ i \in 1..Len(predictRequests)
    /\ predictRequests[i].kind = "predict"
    /\ IF ok
         THEN /\ predictionResult' = ResponseData(predictRequests[i])
              /\ predictLoading' = FALSE
              /\ UNCHANGED error
         ELSE /\ error' = ErrorOf(detail)
              /\ UNCHANGED <<predictionResult, predictLoading>>
    /\ predictRequests' = RemoveAt(predictRequests, i)
    /\ UNCHANGED <<predictTeams, homeTeam, awayTeam>>
    /\ UNCHANGED <<pageVars, genVars, winVars, anaVars, leagueVars,
                   onbVars, browseVars>>

\* Lines 60-69: the request answers, or fails.
PredictAnswers(i, ok, detail) ==
    /\ i \in 1..Len(predictRequests)
    /\ predictRequests[i].kind = "predict"
    /\ IF ok
         THEN /\ predictionResult' = ResponseData(predictRequests[i])
              /\ UNCHANGED error
         ELSE /\ error' = ErrorOf(detail)
              /\ UNCHANGED predictionResult
    /\ predictLoading' = FALSE
    /\ predictRequests' = RemoveAt(predictRequests, i)
    /\ UNCHANGED <<predictTeams, homeTeam, awayTeam>>
    /\ UNCHANGED <<pageVars, genVars, winVars, anaVars, leagueVars,
                   onbVars, browseVars>>

AnyPredictAnswers ==
    \E i \in 1..Len(predictRequests), ok \in BOOLEAN, detail \in Details :
        PredictAnswers(i, ok, detail)

PredictNext ==
    \/ \E i \in 1..Len(predictRequests), ok \in BOOLEAN :
          fetchTeamsAnswers(i, ok)
    \/ \E team \in PredictTeamNames \cup {NotChosen} : setHomeTeam(team)
    \/ \E team \in PredictTeamNames \cup {NotChosen} : setAwayTeam(team)
    \/ handlePredict
    \/ AnyPredictAnswers

-----------------------------------------------------------------------------
(* Specifications *)

PageIdle ==
    /\ db_matches = Idle /\ db_predictions = Idle /\ db_clock = Idle
    /\ predictions = Idle
    /\ upcomingMatches = Idle /\ loading = Idle /\ generatingPrediction = Idle
    /\ mountPending = Idle /\ calls = Idle
GenIdle == draws = Idle /\ mockPrediction = Idle
WinIdle == probs = Idle /\ outcome = Idle
AnaIdle == players = Idle /\ view = Idle /\ aggregate = Idle
LeagueIdle ==
    /\ teams = Idle /\ matches = Idle /\ selectedLeague = Idle
    /\ dataLoading = Idle /\ searchTerm = Idle /\ leagueFilter = Idle
    /\ filteredTeams = Idle
OnbIdle ==
    /\ currentScreen = Idle /\ selectedRole = Idle /\ user = Idle
    /\ formLoading = Idle /\ inFlight = Idle /\ db_profiles = Idle
BrowseIdle ==
    /\ browseLeague = Idle /\ browseLoading = Idle
    /\ browseTeams = Idle /\ browsePlayers = Idle /\ selectedTeam = Idle
    /\ loadingPlayers = Idle /\ browseRequests = Idle
PredIdle ==
    /\ predictTeams = Idle
    /\ homeTeam = Idle /\ awayTeam = Idle /\ predictLoading = Idle
    /\ predictionResult = Idle /\ error = Idle /\ predictRequests = Idle
OtherPagesIdle == OnbIdle /\ BrowseIdle /\ PredIdle

\* The stored-predictions page against the data store.
Init == PageInit /\ GenIdle /\ WinIdle /\ AnaIdle /\ LeagueIdle /\ OtherPagesIdle
Next == PageNext
Spec == Init /\ [][Next]_vars

\* The mock generator over the whole grid of random values.
InitGen == PageIdle /\ GenInit /\ WinIdle /\ AnaIdle /\ LeagueIdle /\ OtherPagesIdle
NextGen == GenNext
SpecGen == InitGen /\ [][NextGen]_vars

\* The two winner computations over every probability triple.
InitWinner == PageIdle /\ GenIdle /\ WinInit /\ AnaIdle /\ LeagueIdle /\ OtherPagesIdle
NextWinner == WinNext
SpecWinner == InitWinner /\ [][NextWinner]_vars

\* The rankings of the Analysis page over every player collection.
InitRank == PageIdle /\ GenIdle /\ WinIdle /\ RankInit /\ LeagueIdle /\ OtherPagesIdle
NextRank == RankNext
SpecRank == InitRank /\ [][NextRank]_vars

\* The performance data of the Analysis page.
InitPerformance == PageIdle /\ GenIdle /\ WinIdle /\ PerfInit /\ LeagueIdle /\ OtherPagesIdle
NextPerformance == RenderPerformanceData
SpecPerformance == InitPerformance /\ [][NextPerformance]_vars

\* The position distribution of the Analysis page.
InitPositions == PageIdle /\ GenIdle /\ WinIdle /\ PosInit /\ LeagueIdle /\ OtherPagesIdle
NextPositions == RenderPositionData
SpecPositions == InitPositions /\ [][NextPositions]_vars

\* The data store under inserts, updates and deletes of its clients.
InitStore == StoreInit /\ GenIdle /\ WinIdle /\ AnaIdle /\ LeagueIdle /\ OtherPagesIdle
NextStore == StoreNext
SpecStore == InitStore /\ [][NextStore]_vars

\* The Analysis page and the Teams page, whichever is mounted.
InitLeaguePages == PageIdle /\ GenIdle /\ WinIdle /\ LeaguePagesInit /\ OtherPagesIdle
NextLeaguePages == LeaguePagesNext
SpecLeaguePages == InitLeaguePages /\ [][NextLeaguePages]_vars

\* The onboarding flow with its requests and timers in any order.
InitOnboarding ==
    /\ PageIdle /\ GenIdle /\ WinIdle /\ AnaIdle /\ LeagueIdle
    /\ OnboardingInit /\ BrowseIdle /\ PredIdle
NextOnboarding == OnboardingNext
SpecOnboarding == InitOnboarding /\ [][NextOnboarding]_vars

\* The team-browsing page with its requests answered in any order.
InitBrowse ==
    /\ PageIdle /\ GenIdle /\ WinIdle /\ AnaIdle /\ LeagueIdle
    /\ OnbIdle /\ BrowseInit /\ PredIdle
NextBrowse == BrowseNext
SpecBrowse == InitBrowse /\ [][NextBrowse]_vars

\* The predictor page under any selections, clicks and answers.
InitPredict ==
    /\ PageIdle /\ GenIdle /\ WinIdle /\ AnaIdle /\ LeagueIdle
    /\ OnbIdle /\ BrowseIdle /\ PredictInit
NextPredict == PredictNext
SpecPredict == InitPredict /\ [][NextPredict]_vars

\* The same page when every request sent to the backend is answered, with a
\* response or with an error.
SpecPredictFair == SpecPredict /\ WF_vars(AnyPredictAnswers)

-----------------------------------------------------------------------------
(* Claims about the stored-predictions page, under Spec *)

SameTeams(m) == db_matches[m].home_team_id = db_matches[m].away_team_id

\* C1: in every reachable state of the prediction store, whatever generate
\* requests were issued and however they interleaved, at most one row of
\* match_predictions exists per match id.
C1_AtMostOnePredictionPerMatch ==
    \A m \in Matches : Count(db_predictions, m) <= 1

\* C2: a generate call for a match that already has a stored prediction fails:
\* its insert is never accepted, so the call never gets past the insert to
\* the refresh of lines 126-128.
C2_DuplicateGenerateFails ==
    \A i \in 1..Len(calls) : calls[i].existed => calls[i].pc = "insert"

\* C3: a prediction request for a match whose home team and away team are the
\* same team sends nothing to the data store and produces no prediction: no
\* such call is in flight and no stored prediction belongs to such a match.
C3_SameTeamPairRejected ==
    /\ \A i \in 1..Len(calls) : ~SameTeams(calls[i].match)
    /\ \A i \in 1..Len(db_predictions) : ~SameTeams(db_predictions[i].match_id)

-----------------------------------------------------------------------------
(* Claims about the generated record, under SpecGen *)

\* C4: every prediction the generator produces has three non-negative
\* probabilities which, at 2-decimal precision, sum to exactly 100.00.
C4_ProbabilitiesSumTo100 ==
    mockPrediction # NoPrediction =>
        /\ mockPrediction.home_win_probability >= 0
        /\ mockPrediction.draw_probability >= 0
        /\ mockPrediction.away_win_probability >= 0
        /\ mockPrediction.home_win_probability + mockPrediction.draw_probability
             + mockPrediction.away_win_probability = 10000

-----------------------------------------------------------------------------
(* Claims about the winner computations, under SpecWinner *)

\* The winner the specification asks for: the largest probability, ties going
\* to home, then draw, then away.
SpecifiedWinner(p) ==
    IF p.home_win_probability >= p.draw_probability
         /\ p.home_win_probability >= p.away_win_probability THEN "home"
    ELSE IF p.draw_probability >= p.away_win_probability THEN "draw"
    ELSE "away"

\* What a rendered outcome names as the winner.
NamedWinner(o) ==
    IF o.by = "getWinnerInfo" THEN o.type
    ELSE IF o.winner = "Home Win" THEN "home"
    ELSE IF o.winner = "Draw" THEN "draw"
    ELSE "away"

\* C5: the predicted winner is the outcome with the largest probability, ties
\* for the maximum being broken in the order home, draw, away.
C5_WinnerIsMaxWithTieOrder ==
    outcome # NoOutcome => NamedWinner(outcome) = SpecifiedWinner(probs)


-----------------------------------------------------------------------------
(* Claims about the rankings, under SpecRank *)

Min(a, b) == IF a < b THEN a ELSE b

\* The ranking a view of the page shows for the players ps.
RankingOf(v, ps) ==
    IF v = "topScorers" THEN topScorers(ps)
    ELSE IF v = "mostGoals" THEN mostGoals(ps)
    ELSE IF v = "mostAssists" THEN mostAssists(ps)
    ELSE mostActive(ps)

Permuted(ps, q) == [i \in 1..Len(ps) |-> ps[q[i]]]

\* C6: a ranking by a metric is sorted non-increasing by that metric, and two
\* entries with the same metric value appear in ascending order of name.
C6_RankingSortedTiesByName ==
    aggregate # NoAggregate =>
        \A i, j \in 1..Len(aggregate) :
            i < j =>
                /\ aggregate[i][MetricOf(view)] >= aggregate[j][MetricOf(view)]
                /\ aggregate[i][MetricOf(view)] = aggregate[j][MetricOf(view)]
                       => aggregate[i].name <= aggregate[j].name

\* C7: the ranking is the same sequence for every permutation of the player
\* collection it is computed from.
C7_RankingIgnoresInputOrder ==
    aggregate # NoAggregate =>
        \A q \in Permutations(1..Len(players)) :
            RankingOf(view, Permuted(players, q)) = aggregate

\* C8: a ranking with limit N holds only players whose metric value is greater
\* than 0, has min(N, number of such players) entries, each of them a player
\* of the collection, and leaves out no player whose value is strictly greater
\* than that of a player it holds.
C8_RankingFiltersAndTruncates ==
    aggregate # NoAggregate =>
        LET m == MetricOf(view)
            held == 1..Len(aggregate)
            given == 1..Len(players)
        IN  /\ \A i \in held : aggregate[i][m] > 0
            /\ Len(aggregate) =
                  Min(LimitOf(view), Cardinality({k \in given : players[k][m] > 0}))
            /\ \A i \in held :
                  /\ Cardinality({j \in held : aggregate[j].name = aggregate[i].name
                                                /\ aggregate[j][m] = aggregate[i][m]})
                       <= Cardinality({k \in given :
                                          /\ LastName(players[k].name) = aggregate[i].name
                                          /\ players[k][m] = aggregate[i][m]})
                  /\ Cardinality({k \in given : players[k][m] > aggregate[i][m]})
                       = Cardinality({j \in held : aggregate[j][m] > aggregate[i][m]})

\* A ranking that was cut to its limit: more players with a positive value than
\* the limit, the first of them (value 1) left behind one with value 2.
C8_Witness ==
    /\ view = "mostActive"
    /\ aggregate # NoAggregate
    /\ Len(aggregate) = TableLimit
    /\ Cardinality({k \in 1..Len(players) : players[k].matches_played > 0}) > TableLimit
    /\ aggregate[1].matches_played = 2
    /\ aggregate[TableLimit].matches_played = 1
    /\ players[1].matches_played = 1

-----------------------------------------------------------------------------
(* Claims about the performance data, under SpecPerformance *)

\* C9: the performance index holds only players with goals > 0 or assists > 0,
\* the total of each entry is goals + assists, and the entries are the first
\* limit ones of the players ordered non-increasing by total, ties by
\* ascending name, so that no player left out has a greater total than one
\* held.
C9_PerformanceOrderedByTotal ==
    aggregate # NoAggregate =>
        /\ \A i \in 1..Len(aggregate) :
              /\ aggregate[i].goals > 0 \/ aggregate[i].assists > 0
              /\ aggregate[i].total = aggregate[i].goals + aggregate[i].assists
        /\ Len(aggregate) =
              Min(ScatterLimit, Cardinality({k \in 1..Len(players) :
                      players[k].goals > 0 \/ players[k].assists > 0}))
        /\ \A i, j \in 1..Len(aggregate) :
              i < j =>
                  /\ aggregate[i].total >= aggregate[j].total
                  /\ aggregate[i].total = aggregate[j].total
                         => aggregate[i].name <= aggregate[j].name

-----------------------------------------------------------------------------
(* Claims about the position distribution, under SpecPositions *)

\* C10: the counts of the position distribution sum to exactly the number of
\* players it was computed from.
C10_PositionCountsSumToPlayers ==
    aggregate # NoAggregate =>
        SeqSum([i \in 1..Len(aggregate) |-> aggregate[i].count]) = Len(players)

\* The positions the specification gives the distribution as keys.
SpecifiedPositionKeys ==
    {"Forward", "Midfielder", "Defender", "Goalkeeper", "Unknown"}

\* C11: every key of the position distribution is one of Forward, Midfielder,
\* Defender, Goalkeeper and Unknown, a player whose position is none of the
\* four named ones is counted under Unknown, and a key is present only with a
\* count greater than 0.
C11_PositionKeysAreTheFiveNamed ==
    aggregate # NoAggregate =>
        /\ \A i \in 1..Len(aggregate) :
              /\ aggregate[i].position \in SpecifiedPositionKeys
              /\ aggregate[i].count > 0
        /\ (\E j \in 1..Len(players) :
                players[j].position \notin SpecifiedPositionKeys)
             => \E i \in 1..Len(aggregate) : aggregate[i].position = "Unknown"

-----------------------------------------------------------------------------
(* Claims about the match summary, the league filter and the page as a     *)
(* whole, under SpecLeaguePages                                            *)

\* A match with scores: neither score is null.
HasScores(m) == m.home_score # NullScore /\ m.away_score # NullScore

Scored(ms) == SelectSeq(ms, HasScores)

\* C12: the total of the match summary is the sum of the scores of the
\* matches considered that have scores, and its average is that total divided
\* by the number of those matches (to two decimals): a match without scores
\* adds nothing to the total and does not count in the denominator.
C12_AverageOverMatchesWithScores ==
    (view = "Analysis" /\ Scored(aggregate.filteredMatches) # <<>>) =>
        LET scored == Scored(aggregate.filteredMatches)
        IN  /\ aggregate.totalGoals
                 = SeqSum([i \in 1..Len(scored) |->
                              scored[i].home_score + scored[i].away_score])
            /\ aggregate.averageGoalsPerMatch
                 = ToFixed2(aggregate.totalGoals, Len(scored))

\* C13: when no match is considered (none is left by the league filter, or
\* none of those left has scores), the total is 0 and the average is 0.
C13_NoMatchGivesZero ==
    (view = "Analysis" /\ Scored(aggregate.filteredMatches) = <<>>) =>
        /\ aggregate.totalGoals = 0
        /\ aggregate.averageGoalsPerMatch = 0

\* The league filter has left no match of a page that has fetched some.
C13_Witness ==
    /\ view = "Analysis" /\ ~dataLoading
    /\ matches # <<>> /\ selectedLeague # "all"
    /\ aggregate.filteredMatches = <<>>
    /\ aggregate.totalGoals = 0 /\ aggregate.averageGoalsPerMatch = 0

\* The league of a player: the league of the team whose name the player
\* carries, none when there is no such team.
PlayerInLeague(ts, player, l) ==
    \E i \in 1..Len(ts) : ts[i].name = player.team /\ ts[i].league = l

\* C14: with the league "all" a league filter returns the collection it is
\* given; with a league L it returns the elements whose league is exactly L
\* (the case of the letters included), in the order they had.  This holds
\* for the players and matches of the Analysis page and for the teams of
\* the Teams page (whose filter is given the teams the search term left).
C14_LeagueFilterIsExactSubsequence ==
    /\ view = "Analysis" =>
          /\ aggregate.filteredPlayers
               = IF selectedLeague = "all" THEN players
                 ELSE SelectSeq(players, LAMBDA q :
                                    PlayerInLeague(teams, q, selectedLeague))
          /\ aggregate.filteredMatches
               = IF selectedLeague = "all" THEN matches
                 ELSE SelectSeq(matches, LAMBDA m : m.league = selectedLeague)
    /\ view = "Teams" =>
          LET searched == filterTeams(teams, searchTerm, "all")
          IN  filteredTeams
                = IF leagueFilter = "all" THEN searched
                  ELSE SelectSeq(searched, LAMBDA t : t.league = leagueFilter)

\* The filter has dropped a match whose league differs from the chosen one
\* only in case, and kept another.
C14_Witness ==
    /\ view = "Analysis" /\ ~dataLoading
    /\ selectedLeague = "premier league"
    /\ Len(matches) = 2
    /\ matches[1].league = "Premier League"
    /\ matches[2].league = "premier league"
    /\ aggregate.filteredMatches = <<matches[2]>>

\* C15: every aggregate computed from an empty collection is empty: the
\* league filters, the rankings, the performance data and the position
\* distribution give the empty sequence, and the match summary gives total 0
\* and average 0.
C15_EmptyCollectionsGiveEmptyAggregates ==
    /\ (view = "Analysis" /\ players = <<>>) =>
          /\ aggregate.filteredPlayers = <<>>
          /\ aggregate.topScorers = <<>>
          /\ aggregate.mostAssists = <<>>
          /\ aggregate.mostActive = <<>>
          /\ aggregate.performanceData = <<>>
          /\ aggregate.positionData = <<>>
    /\ (view = "Analysis" /\ matches = <<>>) =>
          /\ aggregate.filteredMatches = <<>>
          /\ aggregate.totalGoals = 0
          /\ aggregate.averageGoalsPerMatch = 0
    /\ (view = "Teams" /\ teams = <<>>) => filteredTeams = <<>>

\* The queries have answered with no player and no match, and a league was
\* chosen.
C15_Witness ==
    /\ view = "Analysis" /\ ~dataLoading
    /\ players = <<>> /\ matches = <<>>
    /\ teams # <<>> /\ selectedLeague # "all"
    /\ aggregate.positionData = <<>> /\ aggregate.topScorers = <<>>

\* C16: a render of the Analysis page, which computes every aggregate, leaves
\* the players, teams and matches it computes them from as they were, in
\* content and in order: once the data is fetched no step changes them, and
\* after a render for the league "all", whose filteredPlayers is the players
\* array itself, the state holds the players that render started from.
C16_AggregatesLeaveInputsUnchanged ==
    [][view = "Analysis" =>
          /\ ~dataLoading =>
                /\ players' = players
                /\ teams' = teams
                /\ matches' = matches
          /\ selectedLeague' = "all" => players' = aggregate'.filteredPlayers]_vars

\* A render after a league was chosen has ranked two players in the order
\* opposite to the one the collection holds them in.
C16_Witness ==
    /\ view = "Analysis" /\ ~dataLoading
    /\ selectedLeague # "all"
    /\ Len(players) = 2
    /\ players[1].goals = 1 /\ players[2].goals = 2
    /\ Len(aggregate.topScorers) = 2
    /\ aggregate.topScorers[1].goals = 2

-----------------------------------------------------------------------------
(* Claims about normalisation and determinism of the generator, under      *)
(* SpecGen                                                                 *)

ProbabilitiesOf(p) ==
    <<p.home_win_probability, p.draw_probability, p.away_win_probability>>

\* The raw weights of a call, read in two ways: the three values the call
\* computes from Math.random() before rounding them (each times RandSteps),
\* and the three values Math.random() itself returned (each times RandSteps).
ComputedWeights(d) ==
    <<30 * RandSteps + 40 * d[3], 20 * RandSteps + 30 * d[4],
      30 * RandSteps + 40 * d[5]>>
DrawnWeights(d) == <<d[3], d[4], d[5]>>

\* The probabilities the specification derives from weights w of positive
\* sum: 100 * w / sum rounded to hundredths, the largest component (the first
\* of them when several are largest) replaced by 100.00 minus the other two.
Normalised(w) ==
    LET sum == w[1] + w[2] + w[3]
        rounded == [i \in 1..3 |-> ToFixed2(100 * w[i], sum)]
        largest == CHOOSE i \in 1..3 :
                       /\ \A j \in 1..3 : w[j] <= w[i]
                       /\ \A j \in 1..(i - 1) : w[j] < w[i]
    IN  [i \in 1..3 |->
            IF i = largest
            THEN 10000 - SeqSum([j \in 1..2 |->
                                    rounded[IF j < i THEN j ELSE j + 1]])
            ELSE rounded[i]]

\* C17: the probabilities of a generated record are the raw weights of the
\* call normalised to 100 (two components rounded to hundredths, the largest
\* one taking the rest), under one of the two readings of the raw weights.
C17_ProbabilitiesAreNormalisedWeights ==
    mockPrediction # NoPrediction =>
        \E w \in {ComputedWeights(draws), DrawnWeights(draws)} :
            /\ w[1] + w[2] + w[3] > 0
            /\ ProbabilitiesOf(mockPrediction) = Normalised(w)

\* C18: a call whose three raw weights are all 0, under either reading of
\* the raw weights, gives the probabilities (33.34, 33.33, 33.33).
C18_ZeroWeightsGiveUniformSplit ==
    (/\ mockPrediction # NoPrediction
     /\ \E w \in {ComputedWeights(draws), DrawnWeights(draws)} :
            w = <<0, 0, 0>>) =>
        ProbabilitiesOf(mockPrediction) = <<3334, 3333, 3333>>

\* C20: the generator is a function of the match it is called for: every
\* call for the match of the record built, whatever Math.random() returns to
\* it, gives the predicted scores and the probabilities of that record.
C20_GeneratorIsDeterministic ==
    mockPrediction # NoPrediction =>
        \A d \in DrawTuples :
            LET other == MockPrediction(mockPrediction.match_id, d)
            IN  /\ other.predicted_home_score = mockPrediction.predicted_home_score
                /\ other.predicted_away_score = mockPrediction.predicted_away_score
                /\ ProbabilitiesOf(other) = ProbabilitiesOf(mockPrediction)

-----------------------------------------------------------------------------
(* Claims about the lifetime of a stored prediction, under SpecStore *)

\* C19: a stored prediction never changes and never disappears while its
\* match exists: in every step each row of match_predictions is still there
\* with every field as it was, unless the step deleted the match the row
\* references; and a step that deletes a match leaves no prediction of it.
C19_PredictionsImmutableUntilMatchDeleted ==
    [][/\ \A i \in 1..Len(db_predictions) :
             \/ \E j \in 1..Len(db_predictions') :
                   db_predictions'[j] = db_predictions[i]
             \/ /\ db_predictions[i].match_id \in DOMAIN db_matches
                /\ db_predictions[i].match_id \notin DOMAIN db_matches'
       /\ \A j \in 1..Len(db_predictions') :
             db_predictions'[j].match_id \in DOMAIN db_matches']_vars

\* Two predictions were stored, of two matches; one match was deleted and
\* took its prediction with it, the other prediction is still stored.
C19_Witness ==
    /\ db_clock = 2
    /\ Len(db_predictions) = 1
    /\ Cardinality(DOMAIN db_matches) = NumMatches - 1
    /\ db_predictions[1].match_id \in DOMAIN db_matches

\* C21: every record the generator builds has a list of key factors with at
\* least one label, and no label occurs in it twice.
C21_KeyFactorsNonEmptyAndDistinct ==
    mockPrediction # NoPrediction =>
        /\ Len(mockPrediction.key_factors) >= 1
        /\ \A i, j \in 1..Len(mockPrediction.key_factors) :
              mockPrediction.key_factors[i] = mockPrediction.key_factors[j]
                  => i = j

\* A record was built, with the four labels of the generator.
C21_Witness ==
    /\ mockPrediction # NoPrediction
    /\ Len(mockPrediction.key_factors) = 4
    /\ mockPrediction.key_factors[1] = "Home advantage"

-----------------------------------------------------------------------------
(* Claims about the requests of the stored-predictions page, under Spec *)

\* C22: at most one generatePrediction call per match is in flight, and while
\* a call for a match is in flight the Generate button of that match is
\* disabled (generatingPrediction holds that match).
C22_OneRequestPerMatchInFlight ==
    /\ \A i, j \in 1..Len(calls) : calls[i].match = calls[j].match => i = j
    /\ \A i \in 1..Len(calls) : generatingPrediction = calls[i].match

\* C23: whenever no fetch is in progress (the requests of the mount effect
\* have answered and no generatePrediction call is in flight), no match of
\* the upcoming list has a stored prediction.
C23_UpcomingExcludesPredictedMatches ==
    (mountPending = {} /\ calls = <<>>) =>
        \A k \in 1..Len(upcomingMatches) :
            Count(db_predictions, upcomingMatches[k]) = 0

-----------------------------------------------------------------------------
(* Claims about the two winner computations, under SpecWinner *)

\* C29: the probability getWinnerInfo reports with its winner is greater than
\* or equal to each of the three probabilities of the prediction.
C29_WinnerInfoCarriesTheMaximum ==
    outcome.by = "getWinnerInfo" =>
        /\ outcome.prob >= probs.home_win_probability
        /\ outcome.prob >= probs.draw_probability
        /\ outcome.prob >= probs.away_win_probability

\* The type getWinnerInfo gives to the outcome getMostLikelyOutcome names.
TypeOfOutcome(name) ==
    IF name = "Home Win" THEN "home"
    ELSE IF name = "Away Win" THEN "away"
    ELSE "draw"

\* C30: getMostLikelyOutcome and getWinnerInfo agree on every probability
\* triple: whichever of the two was rendered, the other one, computed from
\* the same triple, names the same winner.
C30_WinnerComputationsAgree ==
    /\ outcome.by = "getWinnerInfo" =>
          outcome.type = TypeOfOutcome(getMostLikelyOutcome(probs))
    /\ outcome.by = "getMostLikelyOutcome" =>
          TypeOfOutcome(outcome.winner) = getWinnerInfo(probs).type

-----------------------------------------------------------------------------
(* Claims about the onboarding flow, under SpecOnboarding *)

\* C24: whenever the current screen is 'auth' or 'success' the selected role
\* is non-null, and the 'player-identity' / 'coach-identity' screen is shown
\* only while the selected role is 'player' / 'coach', for every interleaving
\* of role selection, Back and the delayed onSuccess / onComplete callbacks.
C24_ScreenAgreesWithSelectedRole ==
    /\ currentScreen \in {"auth", "success"} => selectedRole # NoRole
    /\ currentScreen = "player-identity" => selectedRole = "player"
    /\ currentScreen = "coach-identity" => selectedRole = "coach"

\* C25: the success screen is reached only after a profile row of the user
\* has been stored; a failed insert never leads to it, for any role.
C25_SuccessOnlyAfterProfileStored ==
    currentScreen = "success" => db_profiles # {}

-----------------------------------------------------------------------------
(* Claims about the team-browsing page, under SpecBrowse *)

\* C26: once every outstanding player request has completed, the players
\* displayed are those returned for the currently selected team: the answer
\* for team A arriving after the answer for team B never leaves the players of
\* A shown while B is the selected team.
C26_PlayersShownAreOfSelectedTeam ==
    (/\ selectedTeam # NoSelectedTeam
     /\ \A i \in 1..Len(browseRequests) : browseRequests[i].kind # "players")
        => \A k \in 1..Len(browsePlayers) : browsePlayers[k].team = selectedTeam

-----------------------------------------------------------------------------
(* Claims about the predictor page, under SpecPredict and SpecPredictFair *)

\* C27: whenever a prediction is displayed, the home and away team names
\* shown with it are the pair sent in the request that produced it, and no
\* error message is shown at the same time, after any sequence of team
\* selections and Predict clicks.
C27_ShownNamesAreThePairPredicted ==
    predictionResult # NoResult =>
        /\ homeTeam = predictionResult.home_team
        /\ awayTeam = predictionResult.away_team
        /\ error = NoError

PredictInFlight ==
    {i \in 1..Len(predictRequests) : predictRequests[i].kind = "predict"}

\* C28: loading is true exactly while a prediction request is in flight, at
\* most one request is in flight at a time, every started request eventually
\* returns loading to false whether it succeeds or fails, and on failure the
\* error message is set and no prediction is displayed.
C28_LoadingFollowsTheRequest ==
    /\ [](predictLoading <=> PredictInFlight # {})
    /\ [](Cardinality(PredictInFlight) <= 1)
    /\ [][\A i \in 1..Len(predictRequests), ok \in BOOLEAN,
              detail \in Details :
            PredictAnswers(i, ok, detail) =>
                /\ ~predictLoading'
                /\ ~ok => error' # NoError /\ predictionResult' = NoResult]_vars
    /\ (predictLoading ~> ~predictLoading)

\* A request has failed: its message is shown, nothing is loading, and no
\* prediction is displayed.
C28_Witness ==
    /\ error = FailedMessage
    /\ ~predictLoading
    /\ predictionResult = NoResult
    /\ PredictInFlight = {}

=============================================================================
